---- MODULE Spec2Model ----
(***************************************************************************)
(* Model of the nested path resolver (src/nested/nested.rs) and of the     *)
(* resource search (src/azure_search/azure_search.rs).                     *)
(*                                                                         *)
(* A string is a sequence of one-character strings, so that splitting,     *)
(* trimming, lowercasing and joining are computed character by character.  *)
(* A serde_json Value is a record [type, val]; an Object's val is the      *)
(* sequence of its <<key, value>> entries in iteration order, which for    *)
(* serde_json's default map (a BTreeMap) is ascending key order.           *)
(***************************************************************************)
EXTENDS Integers, Sequences, FiniteSets, TLC

VARIABLES obj, config, path, op, result, paths, term, output, default

vars == <<obj, config, path, op, result, paths, term, output, default>>

(***************************************************************************)
(* Bounds of the model.                                                    *)
(***************************************************************************)
\* longest generated raw path string, in characters
MaxPathLen == 3
\* most key/value entries, over all levels, of a generated document
MaxEntries == 2

(***************************************************************************)
(* Characters and strings.                                                 *)
(***************************************************************************)
\* the characters of the model in ascending byte order
Chars ==
    <<" ", ".", "/", "0", "1", "2", "3", "4", "5", "6", "7", "8", "9",
      "A", "B", "C", "D", "E", "F", "G", "H", "I", "J", "K", "L", "M",
      "N", "O", "P", "Q", "R", "S", "T", "U", "V", "W", "X", "Y", "Z",
      "[", "]", "_",
      "a", "b", "c", "d", "e", "f", "g", "h", "i", "j", "k", "l", "m",
      "n", "o", "p", "q", "r", "s", "t", "u", "v", "w", "x", "y", "z">>

\* the position of each character in that order
CharCodes == [c \in {Chars[i] : i \in 1..Len(Chars)} |->
                 CHOOSE i \in 1..Len(Chars) : Chars[i] = c]

CharCode(c) == CharCodes[c]

\* char::is_whitespace, restricted to the characters of the model
is_whitespace(c) == c = " "

\* char lowercasing: "A".."Z" map to "a".."z", everything else to itself
LowercaseChars ==
    [c \in DOMAIN CharCodes |->
        IF CharCodes[c] >= CharCodes["A"] /\ CharCodes[c] <= CharCodes["Z"]
        THEN Chars[CharCodes[c] + (CharCodes["a"] - CharCodes["A"])]
        ELSE c]

to_lowercase_char(c) == LowercaseChars[c]

\* str::to_lowercase
to_lowercase(s) == [i \in 1..Len(s) |-> to_lowercase_char(s[i])]

\* str::trim: drop leading and trailing whitespace
RECURSIVE trim_start(_)
trim_start(s) ==
    IF s # <<>> /\ is_whitespace(Head(s)) THEN trim_start(Tail(s)) ELSE s

RECURSIVE trim_end(_)
trim_end(s) ==
    IF s # <<>> /\ is_whitespace(s[Len(s)])
    THEN trim_end(SubSeq(s, 1, Len(s) - 1))
    ELSE s

trim(s) == trim_end(trim_start(s))

\* str::split(char): the pieces between occurrences of sep; always at least one
RECURSIVE split(_, _)
split(s, sep) ==
    IF \E i \in 1..Len(s) : s[i] = sep
    THEN LET i == CHOOSE j \in 1..Len(s) :
                     s[j] = sep /\ \A k \in 1..(j - 1) : s[k] # sep
         IN  <<SubSeq(s, 1, i - 1)>> \o split(SubSeq(s, i + 1, Len(s)), sep)
    ELSE <<s>>

\* [String]::join(sep)
RECURSIVE join(_, _)
join(strs, sep) ==
    IF strs = <<>> THEN <<>>
    ELSE IF Len(strs) = 1 THEN strs[1]
    ELSE strs[1] \o <<sep>> \o join(Tail(strs), sep)

\* byte-wise lexicographic order of strings (the order of String keys in a BTreeMap)
RECURSIVE str_less(_, _)
str_less(s, t) ==
    IF t = <<>> THEN FALSE
    ELSE IF s = <<>> THEN TRUE
    ELSE IF Head(s) # Head(t) THEN CharCode(Head(s)) < CharCode(Head(t))
    ELSE str_less(Tail(s), Tail(t))

(***************************************************************************)
(* serde_json::Value.                                                      *)
(***************************************************************************)
\* the variants of Value, tagged by variant name
Null == [type |-> "Null", val |-> <<>>]
Bool(b) == [type |-> "Bool", val |-> b]
Number(n) == [type |-> "Number", val |-> n]
Str(s) == [type |-> "String", val |-> s]
Array(items) == [type |-> "Array", val |-> items]
Object(entries) == [type |-> "Object", val |-> entries]

is_object(v) == v.type = "Object"

\* map.get(key): the index of the entry with exactly this key, 0 when absent
map_index(map, key) ==
    IF \E i \in 1..Len(map) : map[i][1] = key
    THEN CHOOSE i \in 1..Len(map) : map[i][1] = key
    ELSE 0

\* the entries of an Object are in strictly ascending key order (so keys are unique)
RECURSIVE well_formed(_)
well_formed(v) ==
    CASE v.type = "Object" ->
            /\ \A i \in 1..(Len(v.val) - 1) : str_less(v.val[i][1], v.val[i + 1][1])
            /\ \A i \in 1..Len(v.val) : well_formed(v.val[i][2])
      [] v.type = "Array" -> \A i \in 1..Len(v.val) : well_formed(v.val[i])
      [] OTHER -> TRUE

(***************************************************************************)
(* PathResolutionError and PathResult.                                     *)
(***************************************************************************)
Ok(v) == [kind |-> "Ok", value |-> v]
InvalidInput == [kind |-> "InvalidInput", message |-> "input must be a json object"]
KeyNotFound(key, step, p) ==
    [kind |-> "KeyNotFound", key |-> key, step |-> step, path |-> p]
TraversalError(step, found_type, p) ==
    [kind |-> "TraversalError", step |-> step, found_type |-> found_type, path |-> p]
EmptyPath == [kind |-> "EmptyPath"]

is_ok(r) == r.kind = "Ok"

(***************************************************************************)
(* ResolverConfig.                                                         *)
(***************************************************************************)
DefaultConfig ==
    [case_sensitive |-> TRUE, separator |-> "/",
     allow_empty_segments |-> FALSE, trim_whitespace |-> TRUE]

(***************************************************************************)
(* PathResolver.                                                           *)
(***************************************************************************)
\* parse_segment that tests the piece for emptiness before trimming it
parse_segment_tests_untrimmed(cfg, segment) ==
    LET processed == IF cfg.trim_whitespace THEN trim(segment) ELSE segment
    IN  IF segment = <<>> /\ ~cfg.allow_empty_segments
        THEN <<>>
        ELSE <<IF cfg.case_sensitive THEN processed ELSE to_lowercase(processed)>>

\* the filter_map closure of parse_path, applied to one piece: <<>> for None,
\* <<segment>> for Some(segment)
parse_segment(cfg, segment) ==
    LET processed == IF cfg.trim_whitespace THEN trim(segment) ELSE segment
    IN  IF processed = <<>> /\ ~cfg.allow_empty_segments
        THEN <<>>
        ELSE <<IF cfg.case_sensitive THEN processed ELSE to_lowercase(processed)>>

RECURSIVE filter_map_segments(_, _)
filter_map_segments(cfg, pieces) ==
    IF pieces = <<>> THEN <<>>
    ELSE parse_segment(cfg, Head(pieces)) \o filter_map_segments(cfg, Tail(pieces))

parse_path(cfg, p) == filter_map_segments(cfg, split(p, cfg.separator))

\* value_type_name that names an Array "object"
value_type_name_array_as_object(value) ==
    CASE value.type = "Null" -> "null"
      [] value.type = "Bool" -> "boolean"
      [] value.type = "Number" -> "number"
      [] value.type = "String" -> "string"
      [] value.type = "Array" -> "object"
      [] value.type = "Object" -> "object"

value_type_name(value) ==
    CASE value.type = "Null" -> "null"
      [] value.type = "Bool" -> "boolean"
      [] value.type = "Number" -> "number"
      [] value.type = "String" -> "string"
      [] value.type = "Array" -> "array"
      [] value.type = "Object" -> "object"

\* build_path that always joins with "/"
build_path_joins_with_slash(cfg, keys, up_to) ==
    join(SubSeq(keys, 1, IF up_to < Len(keys) THEN up_to ELSE Len(keys)), "/")

build_path(cfg, keys, up_to) ==
    join(SubSeq(keys, 1, IF up_to < Len(keys) THEN up_to ELSE Len(keys)), cfg.separator)

\* actual_key that takes the last key of the same lowercase form, not the first
actual_key_takes_last(cfg, map, key) ==
    IF cfg.case_sensitive THEN key
    ELSE IF \E i \in 1..Len(map) : to_lowercase(map[i][1]) = to_lowercase(key)
         THEN LET i == CHOOSE j \in 1..Len(map) :
                          /\ to_lowercase(map[j][1]) = to_lowercase(key)
                          /\ \A k \in (j + 1)..Len(map) :
                                 to_lowercase(map[k][1]) # to_lowercase(key)
              IN  map[i][1]
         ELSE key

\* the key traverse_step looks up: the segment itself, or with case_sensitive
\* off the first key in iteration order whose lowercase equals the segment's
actual_key(cfg, map, key) ==
    IF cfg.case_sensitive THEN key
    ELSE IF \E i \in 1..Len(map) : to_lowercase(map[i][1]) = to_lowercase(key)
         THEN LET i == CHOOSE j \in 1..Len(map) :
                          /\ to_lowercase(map[j][1]) = to_lowercase(key)
                          /\ \A k \in 1..(j - 1) :
                                 to_lowercase(map[k][1]) # to_lowercase(key)
              IN  map[i][1]
         ELSE key

\* traverse_step that reports a node that is no Object as a missing key
traverse_step_reports_missing_key(cfg, current, key, step, p) ==
    IF current.type = "Object"
    THEN LET i == map_index(current.val, actual_key(cfg, current.val, key))
         IN  IF i = 0 THEN KeyNotFound(key, step, p) ELSE Ok(current.val[i][2])
    ELSE KeyNotFound(key, step, p)

traverse_step(cfg, current, key, step, p) ==
    IF current.type = "Object"
    THEN LET i == map_index(current.val, actual_key(cfg, current.val, key))
         IN  IF i = 0 THEN KeyNotFound(key, step, p) ELSE Ok(current.val[i][2])
    ELSE TraversalError(step, value_type_name(current), p)

\* try_fold that returns one segment early
RECURSIVE try_fold_stops_early(_, _, _, _)
try_fold_stops_early(cfg, keys, index, current) ==
    IF index + 1 >= Len(keys) THEN Ok(current)
    ELSE LET r == traverse_step(cfg, current, keys[index + 1], index + 1,
                                build_path(cfg, keys, index + 1))
         IN  IF is_ok(r) THEN try_fold_stops_early(cfg, keys, index + 1, r.value)
             ELSE r

\* keys.iter().enumerate().try_fold(obj, ...) from position index (0-based)
RECURSIVE try_fold(_, _, _, _)
try_fold(cfg, keys, index, current) ==
    IF index >= Len(keys) THEN Ok(current)
    ELSE LET r == traverse_step(cfg, current, keys[index + 1], index + 1,
                                build_path(cfg, keys, index + 1))
         IN  IF is_ok(r) THEN try_fold(cfg, keys, index + 1, r.value) ELSE r

\* get_value without the check of path.trim().is_empty()
get_value_parses_blank(cfg, o, p) ==
    IF ~is_object(o) THEN InvalidInput
    ELSE LET keys == parse_path(cfg, p)
         IN  IF keys = <<>> THEN EmptyPath ELSE try_fold(cfg, keys, 0, o)

\* get_value that validates the path before the document
get_value_checks_path_first(cfg, o, p) ==
    IF trim(p) = <<>> THEN EmptyPath
    ELSE IF ~is_object(o) THEN InvalidInput
    ELSE LET keys == parse_path(cfg, p)
         IN  IF keys = <<>> THEN EmptyPath ELSE try_fold(cfg, keys, 0, o)

get_value(cfg, o, p) ==
    IF ~is_object(o) THEN InvalidInput
    ELSE IF trim(p) = <<>> THEN EmptyPath
    ELSE LET keys == parse_path(cfg, p)
         IN  IF keys = <<>> THEN EmptyPath ELSE try_fold(cfg, keys, 0, o)

\* collect_paths over the entries of one Object from entry i on
RECURSIVE collect_paths(_, _, _)
RECURSIVE collect_entries(_, _, _, _)
collect_entries(cfg, map, i, current_path) ==
    IF i > Len(map) THEN <<>>
    ELSE LET key == map[i][1]
             new_path == IF current_path = <<>> THEN key
                         ELSE current_path \o <<cfg.separator>> \o key
         IN  <<new_path>> \o collect_paths(cfg, map[i][2], new_path)
                 \o collect_entries(cfg, map, i + 1, current_path)

collect_paths(cfg, value, current_path) ==
    IF value.type = "Object" THEN collect_entries(cfg, value.val, 1, current_path)
    ELSE <<>>

get_all_paths(cfg, o) == collect_paths(cfg, o, <<>>)

\* get_value_enhanced: the result of get_value, with the value cloned
get_value_enhanced(cfg, o, p) ==
    LET r == get_value(cfg, o, p)
    IN  IF is_ok(r) THEN Ok(r.value) ELSE r

\* get_value_or_default: unwrap_or(default) of the result
get_value_or_default(cfg, o, p, d) ==
    LET r == get_value_enhanced(cfg, o, p)
    IN  IF is_ok(r) THEN r.value ELSE d

\* has_path that takes a blank path for an existing one
has_path_accepts_blank(cfg, o, p) ==
    is_ok(get_value(cfg, o, p)) \/ get_value(cfg, o, p) = EmptyPath

\* PathResolver::has_path
has_path(cfg, o, p) == is_ok(get_value(cfg, o, p))

\* get_nested_value: get_value of a new resolver with the default config
get_nested_value(o, key_path) == get_value(DefaultConfig, o, key_path)

\* impl PathResolvable for Value
resolve_path(o, p) == get_nested_value(o, p)
Value_has_path(o, p) == is_ok(resolve_path(o, p))

(***************************************************************************)
(* Resource search (src/azure_search/azure_search.rs).                     *)
(***************************************************************************)
\* str::contains(&str): pat occurs in s as a contiguous run of characters
\* (the empty pattern occurs in every string)
contains(s, pat) ==
    \E i \in 0..(Len(s) - Len(pat)) : SubSeq(s, i + 1, i + Len(pat)) = pat

\* the decimal digits
Digits == <<"0", "1", "2", "3", "4", "5", "6", "7", "8", "9">>

\* format!("{}", n) of a usize
RECURSIVE to_decimal(_)
to_decimal(n) ==
    IF n < 10 THEN <<Digits[n + 1]>>
    ELSE to_decimal(n \div 10) \o <<Digits[(n % 10) + 1]>>

\* Option<T>
Some(x) == [some |-> TRUE, value |-> x]
None == [some |-> FALSE]

\* Value::get(&str): the member of an Object under the key, None for a
\* missing key and for every other variant
get(v, key) ==
    IF is_object(v) /\ map_index(v.val, key) # 0
    THEN Some(v.val[map_index(v.val, key)][2])
    ELSE None

\* .and_then(|v| v.as_array()): the elements when the value is an Array
and_then_as_array(opt) ==
    IF opt.some /\ opt.value.type = "Array" THEN Some(opt.value.val) ELSE None

\* .and_then(|n| n.as_str()): the string when the value is a String
and_then_as_str(opt) ==
    IF opt.some /\ opt.value.type = "String" THEN Some(opt.value.val) ELSE None

\* the string literals of the search functions
ValueKey == <<"v", "a", "l", "u", "e">>
NameKey == <<"n", "a", "m", "e">>
ResourceToken == <<"r", "e", "s", "o", "u", "r", "c", "e">>
ResourcePrefix == <<"r", "e", "s", "o", "u", "r", "c", "e", "_">>

\* serde_json::Map::insert: replace the value of an existing key, or put the
\* new entry at its place in key order
map_insert(map, key, value) ==
    IF map_index(map, key) # 0
    THEN [map EXCEPT ![map_index(map, key)] = <<key, value>>]
    ELSE LET below == Cardinality({i \in 1..Len(map) : str_less(map[i][1], key)})
         IN  SubSeq(map, 1, below) \o <<<<key, value>>>>
                 \o SubSeq(map, below + 1, Len(map))

\* search_recursive_bool: the loops over the entries of an Object and over
\* the elements of an Array return at the first hit
RECURSIVE search_recursive_bool(_, _)
RECURSIVE search_entries_from(_, _, _)
RECURSIVE search_items_from(_, _, _)
\* the loop over the entries that tests the key as written, not lowercased
RECURSIVE search_entries_from_keeps_key_case(_, _, _)
search_entries_from_keeps_key_case(map, i, t) ==
    IF i > Len(map) THEN FALSE
    ELSE LET key == map[i][1]
             value == map[i][2]
         IN  IF contains(key, t) THEN TRUE
             ELSE IF value.type = "String" /\ contains(to_lowercase(value.val), t)
             THEN TRUE
             ELSE IF search_recursive_bool(value, t) THEN TRUE
             ELSE search_entries_from_keeps_key_case(map, i + 1, t)

search_entries_from(map, i, t) ==
    IF i > Len(map) THEN FALSE
    ELSE LET key == map[i][1]
             value == map[i][2]
         IN  IF contains(to_lowercase(key), t) THEN TRUE
             ELSE IF value.type = "String" /\ contains(to_lowercase(value.val), t)
             THEN TRUE
             ELSE IF search_recursive_bool(value, t) THEN TRUE
             ELSE search_entries_from(map, i + 1, t)

search_items_from(arr, i, t) ==
    IF i > Len(arr) THEN FALSE
    ELSE IF search_recursive_bool(arr[i], t) THEN TRUE
    ELSE search_items_from(arr, i + 1, t)

\* search_recursive_bool that also tests a String that is no member of an
\* Object
search_recursive_bool_tests_leaf(data, t) ==
    CASE data.type = "Object" -> search_entries_from(data.val, 1, t)
      [] data.type = "Array" -> search_items_from(data.val, 1, t)
      [] data.type = "String" -> contains(to_lowercase(data.val), t)
      [] OTHER -> FALSE

search_recursive_bool(data, t) ==
    CASE data.type = "Object" -> search_entries_from(data.val, 1, t)
      [] data.type = "Array" -> search_items_from(data.val, 1, t)
      [] OTHER -> FALSE

resource_contains_term(resource, t) == search_recursive_bool(resource, t)

\* the loop of search_json stopping at the first resource that matches
RECURSIVE push_matching_stops_at_first(_, _, _, _)
push_matching_stops_at_first(resources, i, term_lower, results) ==
    IF i > Len(resources) THEN results
    ELSE IF resource_contains_term(resources[i], term_lower)
    THEN Append(results, resources[i])
    ELSE push_matching_stops_at_first(resources, i + 1, term_lower, results)

\* the loop of search_json over the resources: push the ones that match
RECURSIVE push_matching(_, _, _, _)
push_matching(resources, i, term_lower, results) ==
    IF i > Len(resources) THEN results
    ELSE push_matching(resources, i + 1, term_lower,
            IF resource_contains_term(resources[i], term_lower)
            THEN Append(results, resources[i])
            ELSE results)

\* search_json that wraps a matching single resource in an Array
search_json_wraps_resource(data, t) ==
    LET term_lower == to_lowercase(t)
        resources == and_then_as_array(get(data, ValueKey))
    IN  IF resources.some
        THEN Array(push_matching(resources.value, 1, term_lower, <<>>))
        ELSE IF resource_contains_term(data, term_lower) THEN Array(<<data>>)
        ELSE Array(<<>>)

\* search_json that searches for the term as given, not lowercased
search_json_keeps_case(data, t) ==
    LET resources == and_then_as_array(get(data, ValueKey))
    IN  IF resources.some
        THEN Array(push_matching(resources.value, 1, t, <<>>))
        ELSE IF resource_contains_term(data, t) THEN data
        ELSE Array(<<>>)

search_json(data, t) ==
    LET term_lower == to_lowercase(t)
        resources == and_then_as_array(get(data, ValueKey))
    IN  IF resources.some
        THEN Array(push_matching(resources.value, 1, term_lower, <<>>))
        ELSE IF resource_contains_term(data, term_lower) THEN data
        ELSE Array(<<>>)

\* subsearch_recursive_flat: results is the map the matches are inserted in;
\* the value of the operator is that map after the call.  Array indices
\* count from 0.
RECURSIVE subsearch_recursive_flat(_, _, _, _, _)
RECURSIVE flat_entries_from(_, _, _, _, _, _)
RECURSIVE flat_items_from(_, _, _, _, _, _)
\* the loop over the entries that puts every key right under the name of the
\* resource, whatever the path of the Object
RECURSIVE flat_entries_from_drops_path(_, _, _, _, _, _)
flat_entries_from_drops_path(map, i, resource_name, p, t, results) ==
    IF i > Len(map) THEN results
    ELSE LET key == map[i][1]
             value == map[i][2]
             current_path == resource_name \o <<".">> \o key
             after_key == IF contains(to_lowercase(key), t)
                          THEN map_insert(results, current_path, value)
                          ELSE results
             after_value == IF /\ value.type = "String"
                               /\ contains(to_lowercase(value.val), t)
                            THEN map_insert(after_key, current_path, value)
                            ELSE after_key
             after_children == subsearch_recursive_flat(
                                   value, resource_name, current_path, t, after_value)
         IN  flat_entries_from_drops_path(map, i + 1, resource_name, p, t,
                                          after_children)

flat_entries_from(map, i, resource_name, p, t, results) ==
    IF i > Len(map) THEN results
    ELSE LET key == map[i][1]
             value == map[i][2]
             current_path == IF p = <<>>
                             THEN resource_name \o <<".">> \o key
                             ELSE p \o <<".">> \o key
             after_key == IF contains(to_lowercase(key), t)
                          THEN map_insert(results, current_path, value)
                          ELSE results
             after_value == IF /\ value.type = "String"
                               /\ contains(to_lowercase(value.val), t)
                            THEN map_insert(after_key, current_path, value)
                            ELSE after_key
             after_children == subsearch_recursive_flat(
                                   value, resource_name, current_path, t, after_value)
         IN  flat_entries_from(map, i + 1, resource_name, p, t, after_children)

\* the loop over the elements of an Array that looks into none of them
flat_items_from_skips_elements(arr, i, resource_name, p, t, results) == results

flat_items_from(arr, i, resource_name, p, t, results) ==
    IF i > Len(arr) THEN results
    ELSE LET index == to_decimal(i - 1)
             current_path == IF p = <<>>
                             THEN resource_name \o <<"[">> \o index \o <<"]">>
                             ELSE p \o <<"[">> \o index \o <<"]">>
         IN  flat_items_from(arr, i + 1, resource_name, p, t,
                 subsearch_recursive_flat(arr[i], resource_name, current_path, t, results))

subsearch_recursive_flat(data, resource_name, p, t, results) ==
    CASE data.type = "Object" -> flat_entries_from(data.val, 1, resource_name, p, t, results)
      [] data.type = "Array" -> flat_items_from(data.val, 1, resource_name, p, t, results)
      [] OTHER -> results

\* resource_name_of that never reads the "name" member
resource_name_of_ignores_name(resource, resource_index) ==
    ResourcePrefix \o to_decimal(resource_index)

\* the name subsearch_json gives to the resource at position resource_index
\* (counted from 0) of the collection
resource_name_of(resource, resource_index) ==
    LET name == and_then_as_str(get(resource, NameKey))
    IN  IF name.some THEN name.value
        ELSE ResourcePrefix \o to_decimal(resource_index)

\* the loop of subsearch_json over the resources
RECURSIVE flat_resources_from(_, _, _, _)
flat_resources_from(resources, i, term_lower, results) ==
    IF i > Len(resources) THEN results
    ELSE flat_resources_from(resources, i + 1, term_lower,
            subsearch_recursive_flat(resources[i],
                resource_name_of(resources[i], i - 1), <<>>, term_lower, results))

\* subsearch_json that takes a root Array for the list of resources
subsearch_json_takes_root_array(data, t) ==
    LET term_lower == to_lowercase(t)
        resources == and_then_as_array(get(data, ValueKey))
    IN  IF resources.some
        THEN Object(flat_resources_from(resources.value, 1, term_lower, <<>>))
        ELSE IF data.type = "Array"
        THEN Object(flat_resources_from(data.val, 1, term_lower, <<>>))
        ELSE Object(subsearch_recursive_flat(data, ResourceToken, <<>>, term_lower, <<>>))

subsearch_json(data, t) ==
    LET term_lower == to_lowercase(t)
        resources == and_then_as_array(get(data, ValueKey))
    IN  IF resources.some
        THEN Object(flat_resources_from(resources.value, 1, term_lower, <<>>))
        ELSE Object(subsearch_recursive_flat(data, ResourceToken, <<>>, term_lower, <<>>))

(***************************************************************************)
(* Inputs: documents, raw path strings and configurations.                 *)
(***************************************************************************)
\* every combination of the four ResolverConfigBuilder setters
Configs ==
    [case_sensitive : BOOLEAN, separator : {"/", "."},
     allow_empty_segments : BOOLEAN, trim_whitespace : BOOLEAN]

GenKeys == {<<>>, <<"A">>, <<"a">>}
GenLeaves == {Number(1)}

\* number of key/value entries of a value, over all levels
RECURSIVE entry_count(_)
RECURSIVE entry_count_from(_, _)
entry_count_from(map, i) ==
    IF i > Len(map) THEN 0
    ELSE 1 + entry_count(map[i][2]) + entry_count_from(map, i + 1)

entry_count(v) ==
    IF v.type = "Object" THEN entry_count_from(v.val, 1) ELSE 0

\* the Objects over GenKeys and GenLeaves with at most n entries over all levels
RECURSIVE GenObjects(_)
GenObjects(n) ==
    IF n = 0 THEN {Object(<<>>)}
    ELSE LET smaller == GenObjects(n - 1)
             fits(t) ==
                 /\ 1 + entry_count(t[2]) + entry_count(t[3]) <= n
                 /\ t[3].val # <<>> => str_less(t[1], t[3].val[1][1])
         IN  {Object(<<>>)} \cup
             {Object(<<<<t[1], t[2]>>>> \o t[3].val) :
                 t \in {u \in GenKeys \X (GenLeaves \cup smaller) \X smaller : fits(u)}}

\* one document per kind of child value, and keys holding separators or whitespace
EdgeDocs ==
    { Object(<<<<<<"a">>, Null>>>>),
      Object(<<<<<<"a">>, Bool(TRUE)>>>>),
      Object(<<<<<<"a">>, Array(<<>>)>>>>),
      Object(<<<<<<"a">>, Array(<<Object(<<<<<<"a">>, Number(1)>>>>)>>)>>>>),
      Object(<<<<<<"/">>, Number(1)>>>>),
      Object(<<<<<<" ">>, Number(1)>>>>),
      Object(<<<<<<" ", "a">>, Number(1)>>>>),
      Object(<<<<<<"a">>, Object(<<<<<<"a">>, Str(<<"a">>)>>>>)>>,
               <<<<"a", "/", "a">>, Number(1)>>>>),
      Object(<<<<<<"a">>, Object(<<<<<<"A">>, Number(1)>>,
                                   <<<<"a">>, Object(<<>>)>>>>)>>>>) }

\* the documents of the worked examples
DocABCD ==
    Object(<<<<<<"a">>, Object(<<<<<<"b">>,
                Object(<<<<<<"c">>, Str(<<"d">>)>>>>)>>>>)>>>>)
DocABValue ==
    Object(<<<<<<"a">>, Object(<<<<<<"b">>,
                Str(<<"v", "a", "l", "u", "e">>)>>>>)>>>>)
DocUserName ==
    Object(<<<<<<"U", "s", "e", "r">>, Object(<<<<<<"N", "a", "m", "e">>,
                Str(<<"A", "l", "i", "c", "e">>)>>>>)>>>>)

\* roots that are not Objects, one of each type
NonObjectDocs ==
    {Null, Bool(TRUE), Number(1), Str(<<"a">>),
     Array(<<Object(<<<<<<"a">>, Number(1)>>>>)>>)}

Docs ==
    GenObjects(MaxEntries) \cup EdgeDocs \cup {DocABCD, DocABValue, DocUserName}
        \cup NonObjectDocs

PathAlphabet == {"a", "A", "/", " "}

\* every string over PathAlphabet of length at most n
RECURSIVE StringsUpTo(_)
StringsUpTo(n) ==
    IF n = 0 THEN {<<>>}
    ELSE LET shorter == StringsUpTo(n - 1)
         IN  shorter \cup {Append(s, c) : s \in shorter, c \in PathAlphabet}

\* the raw paths of the worked examples
PathABC == <<"a", "/", "b", "/", "c">>
PathABMissing == <<"a", "/", "b", "/", "m", "i", "s", "s", "i", "n", "g">>
PathABDeeper == <<"a", "/", "b", "/", "d", "e", "e", "p", "e", "r">>
PathUserName == <<"u", "s", "e", "r", "/", "n", "a", "m", "e">>
PathUSERName == <<"U", "S", "E", "R", "/", "N", "a", "m", "e">>
PathA0 == <<"a", "/", "0">>
PathSpacedAA == <<" ", "a", " ", "/", " ", "a", " ">>
PathWrappedAA == <<"/", "a", "/", "a", "/">>
PathDoubledAA == <<"a", "/", "/", "a">>
PathDotABC == <<"a", ".", "b", ".", "c">>
PathDotAA == <<"a", ".", "a">>
PathDotAUpper == <<"a", ".", "A">>
PathDotOnly == <<".">>

ExamplePaths ==
    {PathABC, PathABMissing, PathABDeeper, PathUserName, PathUSERName, PathA0,
     PathSpacedAA, PathWrappedAA, PathDoubledAA, PathDotABC, PathDotAA,
     PathDotAUpper, PathDotOnly}

Paths == StringsUpTo(MaxPathLen) \cup ExamplePaths

(***************************************************************************)
(* Inputs of the search: documents and search terms.                       *)
(***************************************************************************)
SizeKey == <<"s", "i", "z", "e">>
NestedKey == <<"n", "e", "s", "t", "e", "d">>
StandardB2s == <<"S", "t", "a", "n", "d", "a", "r", "d", "_", "B", "2", "s">>
Resource1 == <<"r", "e", "s", "o", "u", "r", "c", "e", "_", "1">>

\* an Object of one entry, and one of two entries with k1 below k2
Obj1(k, v) == Object(<<<<k, v>>>>)
Obj2(k1, v1, k2, v2) == Object(<<<<k1, v1>>, <<k2, v2>>>>)

\* the elements a resource collection is built from: Objects without a
\* name, with a String name (two of them share the name "a", one is named
\* like the positional fallback of position 1), with a name that is not a
\* String, with nested Objects and Arrays, and elements that are no Objects
Resources ==
    { Object(<<>>),
      Obj1(<<"a">>, Number(1)),
      Obj1(<<"b">>, Str(<<"a">>)),
      Obj1(<<"B">>, Number(1)),
      Obj1(NameKey, Str(<<"a">>)),
      Obj1(NameKey, Number(1)),
      Obj1(NameKey, Str(Resource1)),
      Obj1(<<"b">>, Obj1(<<"a">>, Str(<<"B">>))),
      Obj1(<<"b">>, Array(<<Str(<<"a">>), Obj1(<<"a">>, Number(1))>>)),
      Obj2(<<"b">>, Number(1), NameKey, Str(<<"a">>)),
      Obj2(<<"b">>, Str(<<"a">>), NameKey, Str(<<"a">>)),
      Str(<<"a">>),
      Array(<<Obj1(<<"a">>, Number(1))>>) }

\* every list of at most n resources
RECURSIVE ResourceLists(_)
ResourceLists(n) ==
    IF n = 0 THEN {<<>>}
    ELSE LET shorter == ResourceLists(n - 1)
         IN  shorter \cup {Append(l, r) : l \in shorter, r \in Resources}

\* most elements of a generated resource collection
MaxResources == 2

\* the result of list_resources: the resources under "value", alone or
\* next to another member of the enclosing Object
Collections ==
    {Obj1(ValueKey, Array(l)) : l \in ResourceLists(MaxResources)}
        \cup {Obj2(NameKey, Str(<<"a">>), ValueKey, Array(l)) :
                 l \in ResourceLists(MaxResources)}

\* {"value":[{"size":"Standard_B2s"},{"name":"x"}]}
DocSizeAndName ==
    Obj1(ValueKey, Array(<<Obj1(SizeKey, Str(StandardB2s)),
                           Obj1(NameKey, Str(<<"x">>))>>))

\* {"a":{"size":"Standard_B2s","nested":{"size":"X"}}}
DocNestedSize ==
    Obj1(<<"a">>, Obj2(NestedKey,
                       Obj1(SizeKey, Str(<<"X">>)),
                       SizeKey, Str(StandardB2s)))

\* the document of test_search_json, without diskSize and location:
\* {"name":"x","properties":{"hardwareProfile":{"size":"Standard_B2s"}},"size":"Standard_B2s"}
DocTestSearch ==
    Object(<< <<NameKey, Str(<<"x">>)>>,
              <<<<"p", "r", "o", "p", "e", "r", "t", "i", "e", "s">>,
                Obj1(<<"h", "a", "r", "d", "w", "a", "r", "e",
                       "P", "r", "o", "f", "i", "l", "e">>,
                     Obj1(SizeKey, Str(StandardB2s)))>>,
              <<SizeKey, Str(StandardB2s)>> >>)

\* documents that are no collection: a "value" that is not an Array, a key
\* holding the "." of the flattened paths, and roots that are no Objects
BareDocs ==
    { Obj1(ValueKey, Number(1)),
      Obj1(ValueKey, Obj1(<<"a">>, Number(1))),
      Obj1(ValueKey, Str(<<"a">>)),
      Obj2(<<"a">>, Obj1(<<"b">>, Number(1)), <<"a", ".", "b">>, Number(2)),
      Obj1(<<"a">>, Array(<<Obj1(<<"b">>, Str(<<"a">>)), Str(<<"b">>)>>)),
      Array(<<>>), Array(<<Str(<<"a">>)>>), Null, Bool(TRUE), Number(1),
      Obj1(<<"V", "a", "l", "u", "e">>, Array(<<Obj1(<<"a">>, Number(1))>>)),
      Obj1(ValueKey, Array(<<Obj1(<<"N", "a", "m", "e">>, Str(<<"a">>))>>)),
      Obj1(<<"b">>, Str(<<"A">>)),
      Obj2(<<"A", ".", "b">>, Number(2), <<"a">>, Obj1(<<"b">>, Number(1))),
      DocNestedSize, DocTestSearch }

SearchDocs == Collections \cup {DocSizeAndName} \cup Resources \cup BareDocs

\* the search terms
Terms == {<<>>, <<"a">>, <<"b">>, <<"B">>, NameKey, <<"N", "a", "m", "e">>, SizeKey}

(***************************************************************************)
(* The state machine: a resolver is built with a configuration, and one    *)
(* of its operations is called on a document.                              *)
(***************************************************************************)
NoResult == [kind |-> "None"]

Init ==
    /\ obj \in Docs
    /\ config \in Configs
    /\ path = <<>>
    /\ op = "none"
    /\ result = NoResult
    /\ paths = <<>>
    /\ term = <<>>
    /\ output = NoResult
    /\ default = Null

\* a get_value that leaves the resolver case-insensitive
GetValueChangingConfig ==
    /\ op = "none"
    /\ \E p \in Paths :
          /\ path' = p
          /\ result' = get_value(config, obj, p)
    /\ op' = "get_value"
    /\ config' = [config EXCEPT !.case_sensitive = FALSE]
    /\ UNCHANGED <<obj, paths, term, output, default>>

\* resolver.get_value(&obj, p)
GetValue ==
    /\ op = "none"
    /\ \E p \in Paths :
          /\ path' = p
          /\ result' = get_value(config, obj, p)
    /\ op' = "get_value"
    /\ UNCHANGED <<obj, config, paths, term, output, default>>

\* resolver.get_all_paths(&obj)
GetAllPaths ==
    /\ op = "none"
    /\ paths' = get_all_paths(config, obj)
    /\ op' = "get_all_paths"
    /\ UNCHANGED <<obj, config, path, result, term, output, default>>

Next == GetValue \/ GetAllPaths

Spec == Init /\ [][Next]_vars

TypeOK ==
    /\ well_formed(obj)
    /\ op \in {"none", "get_value", "get_all_paths"}
    /\ result.kind \in {"None", "Ok", "InvalidInput", "KeyNotFound",
                        "TraversalError", "EmptyPath"}

(***************************************************************************)
(* The state machine of the derived operations of the resolver.            *)
(***************************************************************************)
\* the fallback values a caller passes to get_value_or_default
Defaults == {Null, Str(<<"d">>)}

\* resolver.has_path(&obj, p)
HasPath ==
    /\ op = "none"
    /\ \E p \in Paths :
          /\ path' = p
          /\ output' = Bool(has_path(config, obj, p))
    /\ op' = "has_path"
    /\ UNCHANGED <<obj, config, result, paths, term, default>>

\* resolver.get_value_or_default(&obj, p, d)
GetValueOrDefault ==
    /\ op = "none"
    /\ \E p \in Paths, d \in Defaults :
          /\ path' = p
          /\ default' = d
          /\ output' = get_value_or_default(config, obj, p, d)
    /\ op' = "get_value_or_default"
    /\ UNCHANGED <<obj, config, result, paths, term>>

\* obj.has_path(p) of the trait PathResolvable: the resolver is a new one
\* with the default config
ValueHasPath ==
    /\ op = "none"
    /\ config = DefaultConfig
    /\ \E p \in Paths :
          /\ path' = p
          /\ output' = Bool(Value_has_path(obj, p))
    /\ op' = "Value::has_path"
    /\ UNCHANGED <<obj, config, result, paths, term, default>>

NextDerived == HasPath \/ GetValueOrDefault \/ ValueHasPath

SpecDerived == Init /\ [][NextDerived]_vars

(***************************************************************************)
(* The state machine of the search: a document was fetched, and one of     *)
(* the search functions is called on it.                                   *)
(***************************************************************************)
InitSearch ==
    /\ obj \in SearchDocs
    /\ config = DefaultConfig
    /\ path = <<>>
    /\ op = "none"
    /\ result = NoResult
    /\ paths = <<>>
    /\ term = <<>>
    /\ output = NoResult
    /\ default = Null

\* search_json(&data, term)
SearchJson ==
    /\ op = "none"
    /\ \E t \in Terms :
          /\ term' = t
          /\ output' = search_json(obj, t)
    /\ op' = "search_json"
    /\ UNCHANGED <<obj, config, path, result, paths, default>>

\* subsearch_json(&data, term)
SubsearchJson ==
    /\ op = "none"
    /\ \E t \in Terms :
          /\ term' = t
          /\ output' = subsearch_json(obj, t)
    /\ op' = "subsearch_json"
    /\ UNCHANGED <<obj, config, path, result, paths, default>>

\* resource_contains_term(&resource, &term_lower): the callers pass the
\* lowercased term
ResourceContainsTerm ==
    /\ op = "none"
    /\ \E t \in Terms :
          /\ term' = to_lowercase(t)
          /\ output' = Bool(resource_contains_term(obj, to_lowercase(t)))
    /\ op' = "resource_contains_term"
    /\ UNCHANGED <<obj, config, path, result, paths, default>>

NextSearch == SearchJson \/ SubsearchJson \/ ResourceContainsTerm

SpecSearch == InitSearch /\ [][NextSearch]_vars

TypeOKSearch ==
    /\ well_formed(obj)
    /\ op \in {"none", "search_json", "subsearch_json", "resource_contains_term"}
    /\ op # "none" => well_formed(output)

(***************************************************************************)
(* Reference notions the properties are stated in.                         *)
(***************************************************************************)
\* the state after resolver.get_value(obj, path) returned
Resolved == op = "get_value"

\* the state after resolver.get_all_paths(obj) returned
Listed == op = "get_all_paths"

\* a raw path that is empty or whitespace-only
Blank(p) == \A i \in 1..Len(p) : is_whitespace(p[i])

\* the value of the entry of map with exactly this key
entry_value(map, key) ==
    (CHOOSE e \in {map[i] : i \in 1..Len(map)} : e[1] = key)[2]

\* the position in iteration order of the entry with exactly this key
map_position(map, key) == CHOOSE i \in 1..Len(map) : map[i][1] = key

has_key(v, key) == v.type = "Object" /\ \E i \in 1..Len(v.val) : v.val[i][1] = key

\* every segment exists as a key at its level: d[s1], d[s1][s2], ... are defined
RECURSIVE keys_exist(_, _)
keys_exist(d, segs) ==
    \/ segs = <<>>
    \/ /\ has_key(d, Head(segs))
       /\ keys_exist(entry_value(d.val, Head(segs)), Tail(segs))

\* the sequential key lookups d[s1][s2]...[sn]
RECURSIVE lookup(_, _)
lookup(d, segs) ==
    IF segs = <<>> THEN d ELSE lookup(entry_value(d.val, Head(segs)), Tail(segs))

\* at no level does a key that precedes the segment in iteration order have
\* the same lowercase form as the segment
RECURSIVE first_of_its_case(_, _)
first_of_its_case(d, segs) ==
    \/ segs = <<>>
    \/ /\ \A i \in 1..Len(d.val) :
             to_lowercase(d.val[i][1]) = to_lowercase(Head(segs))
                 => i >= map_position(d.val, Head(segs))
       /\ first_of_its_case(entry_value(d.val, Head(segs)), Tail(segs))

(***************************************************************************)
(* C1                                                                      *)
(***************************************************************************)
\* C1 as stated: for every Object document, every config and every path whose
\* parsed segments each exist as a key at the corresponding level, get_value
\* succeeds and returns the value of the sequential key lookups.
C1_LookupAnyConfig ==
    (Resolved /\ is_object(obj)) =>
        LET segs == parse_path(config, path)
        IN  (segs # <<>> /\ keys_exist(obj, segs)) => result = Ok(lookup(obj, segs))

\* C1 amended: the same for a path that is not blank and, when case_sensitive
\* is off, segments that are the first key of their lowercase form at each
\* level: get_value succeeds and returns the value of the sequential lookups.
C1_LookupResolves ==
    (Resolved /\ is_object(obj) /\ ~Blank(path)) =>
        LET segs == parse_path(config, path)
        IN  (/\ segs # <<>>
             /\ keys_exist(obj, segs)
             /\ (config.case_sensitive \/ first_of_its_case(obj, segs)))
                => result = Ok(lookup(obj, segs))

\* {"a":{"b":{"c":"d"}}} with "a/b/c" under the default config returned "d"
C1_Witness ==
    /\ Resolved
    /\ obj = DocABCD
    /\ path = PathABC
    /\ config = DefaultConfig
    /\ result = Ok(Str(<<"d">>))

(***************************************************************************)
(* C2                                                                      *)
(***************************************************************************)
\* C2 as stated: every path string listed by get_all_paths(obj) makes
\* get_value(obj, that path) on the same resolver succeed.
C2_ListedPathsResolve ==
    Listed => \A i \in 1..Len(paths) : is_ok(get_value(config, obj, paths[i]))

(***************************************************************************)
(* C3                                                                      *)
(***************************************************************************)
\* C3 as stated: get_value on an empty or whitespace-only path fails with
\* EmptyPath for every document, whatever its shape, and every config.
C3_BlankPathAnyDocument ==
    (Resolved /\ Blank(path)) => result = EmptyPath

\* C3 amended: get_value on an empty or whitespace-only path fails with
\* EmptyPath for every Object document and every config.
C3_BlankPathOnObject ==
    (Resolved /\ Blank(path) /\ is_object(obj)) => result = EmptyPath

\* a whitespace-only path was rejected although the config keeps untrimmed,
\* empty segments and the document has the key " "
C3_Witness ==
    /\ Resolved
    /\ path = <<" ">>
    /\ has_key(obj, <<" ">>)
    /\ config.allow_empty_segments
    /\ ~config.trim_whitespace
    /\ result = EmptyPath

(***************************************************************************)
(* C4                                                                      *)
(***************************************************************************)
\* C4: get_value on a document whose root is not an Object fails with
\* InvalidInput for every path string and every config.
C4_NonObjectRootInvalidInput ==
    (Resolved /\ ~is_object(obj)) => result = InvalidInput

\* an Array root with a blank path was reported as InvalidInput, not EmptyPath
C4_Witness ==
    /\ Resolved
    /\ obj.type = "Array"
    /\ Blank(path)
    /\ result = InvalidInput

(***************************************************************************)
(* The segments of a raw path as the specification describes them.         *)
(***************************************************************************)
\* the position of the j-th separator of p: 0 before the first, Len(p) + 1
\* after the last
cut(p, sep, j) ==
    LET cuts == {i \in 1..Len(p) : p[i] = sep}
    IN  IF j = 0 THEN 0
        ELSE IF j > Cardinality(cuts) THEN Len(p) + 1
        ELSE CHOOSE c \in cuts : Cardinality({d \in cuts : d <= c}) = j

\* the pieces of a raw path between its separators
pieces(p, sep) ==
    [j \in 1..(Cardinality({i \in 1..Len(p) : p[i] = sep}) + 1) |->
        SubSeq(p, cut(p, sep, j - 1) + 1, cut(p, sep, j) - 1)]

\* a string without its leading and trailing whitespace
stripped(s) ==
    LET inked == {i \in 1..Len(s) : ~is_whitespace(s[i])}
    IN  IF inked = {} THEN <<>>
        ELSE SubSeq(s, CHOOSE i \in inked : \A j \in inked : i <= j,
                       CHOOSE i \in inked : \A j \in inked : j <= i)

\* the segments as written in the raw path: split on the separator, each
\* piece trimmed iff trim_whitespace, empty pieces dropped iff not
\* allow_empty_segments; no case folding
written_segments(cfg, p) ==
    LET ps == pieces(p, cfg.separator)
        trimmed == [j \in 1..Len(ps) |->
                       IF cfg.trim_whitespace THEN stripped(ps[j]) ELSE ps[j]]
        kept(s) == s # <<>> \/ cfg.allow_empty_segments
    IN  SelectSeq(trimmed, kept)

\* the written segments, lowercased when case_sensitive is off
folded_segments(cfg, p) ==
    LET segs == written_segments(cfg, p)
    IN  IF cfg.case_sensitive THEN segs
        ELSE [j \in 1..Len(segs) |-> to_lowercase(segs[j])]

(***************************************************************************)
(* The walk the specification describes: from the root, one segment at a   *)
(* time, into the first key in iteration order that matches the segment.   *)
(***************************************************************************)
\* the positions of the keys of map that match the segment
matching(cfg, map, seg) ==
    {i \in 1..Len(map) :
        IF cfg.case_sensitive THEN map[i][1] = seg
        ELSE to_lowercase(map[i][1]) = to_lowercase(seg)}

first_position(positions) == CHOOSE i \in positions : \A j \in positions : i <= j

\* where the walk over segs ends from node at 1-based step k: "found" after the
\* last segment, "missing" at an Object without a matching key, "blocked" at a
\* node that is not an Object
RECURSIVE walk(_, _, _, _)
walk(cfg, node, segs, k) ==
    IF k > Len(segs) THEN [status |-> "found", step |-> Len(segs), node |-> node]
    ELSE IF node.type # "Object" THEN [status |-> "blocked", step |-> k, node |-> node]
    ELSE IF matching(cfg, node.val, segs[k]) = {}
         THEN [status |-> "missing", step |-> k, node |-> node]
    ELSE walk(cfg, node.val[first_position(matching(cfg, node.val, segs[k]))][2],
              segs, k + 1)

\* the first k strings joined with the separator
RECURSIVE joined(_, _, _)
joined(segs, k, sep) ==
    IF k = 0 THEN <<>>
    ELSE IF k = 1 THEN segs[1]
    ELSE joined(segs, k - 1, sep) \o <<sep>> \o segs[k]

\* the type names of the error taxonomy
type_name(v) ==
    [Null |-> "null", Bool |-> "boolean", Number |-> "number",
     String |-> "string", Array |-> "array", Object |-> "object"][v.type]

\* a call on an Object with a raw path that is not blank and has segments
\* (the segments being the written ones, lowercased when case_sensitive is off)
Walked ==
    /\ Resolved
    /\ is_object(obj)
    /\ ~Blank(path)
    /\ folded_segments(config, path) # <<>>

(***************************************************************************)
(* C5                                                                      *)
(***************************************************************************)
\* C5: when the walk reaches, at 1-based step k, an Object without a key
\* matching segment k, get_value fails with KeyNotFound whose key is segment
\* k, whose step is k and whose path is segments 1..k joined with the
\* configured separator.
C5_KeyNotFoundFields ==
    Walked =>
        LET segs == folded_segments(config, path)
            w == walk(config, obj, segs, 1)
        IN  w.status = "missing" =>
                result = KeyNotFound(segs[w.step], w.step,
                                     joined(segs, w.step, config.separator))

\* {"a":{"b":{"c":"d"}}} with "a/b/missing" gave
\* KeyNotFound{key:"missing", step:3, path:"a/b/missing"}
C5_Witness ==
    /\ Resolved
    /\ obj = DocABCD
    /\ path = PathABMissing
    /\ config = DefaultConfig
    /\ result = KeyNotFound(<<"m", "i", "s", "s", "i", "n", "g">>, 3, PathABMissing)

(***************************************************************************)
(* C6                                                                      *)
(***************************************************************************)
\* C6: when the node at 1-based step k is not an Object while segments
\* remain, get_value fails with TraversalError whose step is k, whose
\* found_type is the type name of that node (null, boolean, number, string or
\* array) and whose path is segments 1..k joined with the configured
\* separator; an Array is never indexed, whatever the segment.
C6_TraversalErrorFields ==
    Walked =>
        LET segs == folded_segments(config, path)
            w == walk(config, obj, segs, 1)
        IN  w.status = "blocked" =>
                /\ result = TraversalError(w.step, type_name(w.node),
                                           joined(segs, w.step, config.separator))
                /\ result.found_type \in {"null", "boolean", "number", "string", "array"}

\* a non-empty Array addressed with the numeric segment "0" was not indexed:
\* "a/0" gave TraversalError{step:2, found_type:"array", path:"a/0"}
C6_Witness ==
    /\ Resolved
    /\ config.separator = "/"
    /\ path = PathA0
    /\ has_key(obj, <<"a">>)
    /\ entry_value(obj.val, <<"a">>).type = "Array"
    /\ entry_value(obj.val, <<"a">>).val # <<>>
    /\ result = TraversalError(2, "array", PathA0)

(***************************************************************************)
(* C7                                                                      *)
(***************************************************************************)
\* C7 as stated: with case_sensitive off, a KeyNotFound error carries in its
\* key field the segment exactly as written in the raw path, not folded.
C7_KeyAsWritten ==
    (Resolved /\ ~config.case_sensitive /\ result.kind = "KeyNotFound") =>
        result.key = written_segments(config, path)[result.step]

(***************************************************************************)
(* C8                                                                      *)
(***************************************************************************)
\* C8: a step succeeds only on an exact key match when case_sensitive is on;
\* when it is off a step succeeds iff some key of the current Object has the
\* lowercase form of the segment, and it descends into the first such key in
\* iteration order. So get_value succeeds iff this walk finds a node, and
\* returns that node.
C8_StepLookup ==
    Walked =>
        LET w == walk(config, obj, folded_segments(config, path), 1)
        IN  /\ is_ok(result) <=> w.status = "found"
            /\ is_ok(result) => result.value = w.node

\* with case_sensitive off and keys "A" and "a" holding different values, the
\* segment "a" resolved to the value of "A", the first in iteration order
C8_Witness ==
    /\ Resolved
    /\ ~config.case_sensitive
    /\ path = <<"a">>
    /\ has_key(obj, <<"A">>)
    /\ has_key(obj, <<"a">>)
    /\ entry_value(obj.val, <<"A">>) # entry_value(obj.val, <<"a">>)
    /\ result = Ok(entry_value(obj.val, <<"A">>))

(***************************************************************************)
(* C9                                                                      *)
(***************************************************************************)
\* only separators and whitespace
OnlySeparators(cfg, p) ==
    \A i \in 1..Len(p) : p[i] = cfg.separator \/ is_whitespace(p[i])

\* what resolving along the written segments gives
along_written_segments ==
    LET segs == folded_segments(config, path)
    IN  IF segs = <<>> THEN EmptyPath ELSE try_fold(config, segs, 0, obj)

\* under the default config a path and its segments joined by single
\* separators give identical results, and a path of separators and whitespace
\* gives EmptyPath
default_config_consequences ==
    config = DefaultConfig =>
        /\ written_segments(config, path) # <<>> =>
               result = get_value(config, obj,
                                  joined(written_segments(config, path),
                                         Len(written_segments(config, path)),
                                         config.separator))
        /\ OnlySeparators(config, path) => result = EmptyPath

\* C9 as stated: the segment sequence get_value uses is the raw path split on
\* the separator, each piece trimmed iff trimWhitespace, empty pieces dropped
\* iff not allowEmptySegments (else kept and looked up as the empty-string
\* key); an empty sequence gives EmptyPath; with the consequences under the
\* default config.
C9_SegmentsOfAnyPath ==
    (Resolved /\ is_object(obj)) =>
        /\ result = along_written_segments
        /\ default_config_consequences

\* C9 amended: on an Object document a blank raw path gives EmptyPath
\* whatever the config; for any other raw path the segment sequence is as
\* stated, and an empty sequence gives EmptyPath; with the consequences under
\* the default config.
C9_SegmentsOfNonBlankPath ==
    (Resolved /\ is_object(obj)) =>
        /\ Blank(path) => result = EmptyPath
        /\ ~Blank(path) => result = along_written_segments
        /\ default_config_consequences

\* with allow_empty_segments on, the path "/" was resolved through the
\* empty-string key twice
C9_Witness ==
    /\ Resolved
    /\ config.allow_empty_segments
    /\ config.separator = "/"
    /\ path = <<"/">>
    /\ has_key(obj, <<>>)
    /\ has_key(entry_value(obj.val, <<>>), <<>>)
    /\ result = Ok(entry_value(entry_value(obj.val, <<>>).val, <<>>))

(***************************************************************************)
(* C10                                                                     *)
(***************************************************************************)
\* the depth-first pre-order listing: each key's path, the parent's path
\* joined to the key with the separator (the key alone at the root), then the
\* paths of its subtree when its value is an Object
RECURSIVE listing(_, _, _, _)
RECURSIVE listing_from(_, _, _, _, _)
listing_from(cfg, map, i, parent, at_root) ==
    IF i > Len(map) THEN <<>>
    ELSE LET here == IF at_root THEN map[i][1]
                     ELSE parent \o <<cfg.separator>> \o map[i][1]
         IN  <<here>> \o listing(cfg, map[i][2], here, FALSE)
                 \o listing_from(cfg, map, i + 1, parent, at_root)

listing(cfg, v, parent, at_root) ==
    IF v.type = "Object" THEN listing_from(cfg, v.val, 1, parent, at_root) ELSE <<>>

\* C10 as stated: get_all_paths is the depth-first pre-order enumeration of
\* key paths, each the parent path joined to the key with the configured
\* separator, recursing only into Objects, and empty for a non-Object root.
C10_PreOrderListing ==
    Listed => paths = listing(config, obj, <<>>, TRUE)

(***************************************************************************)
(* C11                                                                     *)
(***************************************************************************)
\* C11 as stated: get_all_paths emits each path string once; the returned
\* list holds no duplicate path strings.
C11_NoDuplicatePaths ==
    Listed => \A i, j \in 1..Len(paths) : paths[i] = paths[j] => i = j

(***************************************************************************)
(* Reference notions of the search properties.                             *)
(***************************************************************************)
\* the states after search_json, subsearch_json and resource_contains_term
\* returned
Searched == op = "search_json"
Subsearched == op = "subsearch_json"
Tested == op = "resource_contains_term"

\* a resource collection: an Object with a "value" member that is an Array
is_collection(d) ==
    /\ d.type = "Object"
    /\ \E i \in 1..Len(d.val) : d.val[i][1] = ValueKey /\ d.val[i][2].type = "Array"

\* the elements of a resource collection
elements(d) ==
    d.val[CHOOSE i \in 1..Len(d.val) : d.val[i][1] = ValueKey][2].val

\* the node predicate as section 3 of the specification defines it
RECURSIVE matches(_, _)
matches(n, t) ==
    CASE n.type = "Object" ->
            \/ \E i \in 1..Len(n.val) : contains(to_lowercase(n.val[i][1]), t)
            \/ \E i \in 1..Len(n.val) :
                  /\ n.val[i][2].type = "String"
                  /\ contains(to_lowercase(n.val[i][2].val), t)
            \/ \E i \in 1..Len(n.val) : matches(n.val[i][2], t)
      [] n.type = "Array" -> \E i \in 1..Len(n.val) : matches(n.val[i], t)
      [] OTHER -> FALSE

\* the elements of a sequence that match the term, in their order
RECURSIVE matching_elements(_, _)
matching_elements(seq, t) ==
    IF seq = <<>> THEN <<>>
    ELSE (IF matches(Head(seq), t) THEN <<Head(seq)>> ELSE <<>>)
             \o matching_elements(Tail(seq), t)

(***************************************************************************)
(* C12                                                                     *)
(***************************************************************************)
\* C12: search_json on a resource collection returns the Array of exactly
\* the elements of "value" on which the node predicate is true for the
\* lowercased term, unchanged and in their order (the empty Array when none
\* matches); the other members of the enclosing Object play no part.
C12_CollectionSearch ==
    (Searched /\ is_collection(obj)) =>
        output = Array(matching_elements(elements(obj), to_lowercase(term)))

\* a collection of two elements under an enclosing Object with a member
\* "name" that matches the term: the first element does not match, the
\* second does, and the result is the second alone
C12_Witness ==
    /\ Searched /\ is_collection(obj)
    /\ term = NameKey
    /\ Len(obj.val) = 2
    /\ Len(elements(obj)) = 2
    /\ ~matches(elements(obj)[1], term)
    /\ output = Array(<<elements(obj)[2]>>)

(***************************************************************************)
(* C13                                                                     *)
(***************************************************************************)
\* C13 as stated: search_json on a document that is no resource collection
\* returns a sequence of length one holding the whole document when the
\* node predicate is true on the document, and an empty result otherwise.
C13_SingleElementResult ==
    (Searched /\ ~is_collection(obj)) =>
        output = IF matches(obj, to_lowercase(term)) THEN Array(<<obj>>)
                 ELSE Array(<<>>)

\* C13, amended: search_json on a document that is no resource collection
\* evaluates the node predicate on the whole document; when it is true the
\* result is the document itself, not a sequence around it, and when it is
\* false the result is the empty Array.
C13_WholeDocumentResult ==
    (Searched /\ ~is_collection(obj)) =>
        /\ matches(obj, to_lowercase(term)) =>
              (output = obj /\ output # Array(<<obj>>))
        /\ ~matches(obj, to_lowercase(term)) => output = Array(<<>>)

\* the document of test_search_json searched for "size": the result is the
\* document, an Object
C13_Witness ==
    /\ Searched /\ obj = DocTestSearch /\ term = SizeKey
    /\ matches(obj, term)
    /\ output = DocTestSearch

(***************************************************************************)
(* C14                                                                     *)
(***************************************************************************)
\* a match was found: in some element of a collection, or in a document that
\* is no collection
match_found(d, t) ==
    IF is_collection(d)
    THEN \E i \in 1..Len(elements(d)) : matches(elements(d)[i], t)
    ELSE matches(d, t)

non_empty_array_or_object(v) ==
    \/ v.type = "Array" /\ v.val # <<>>
    \/ v.type = "Object"

\* C14: search_json on a document that is no resource collection returns
\* the document itself when it matches and the empty Array when it does
\* not; and for every document and term the result is a non-empty Array or
\* an Object exactly when a match was found.
C14_BareDocumentUnwrapped ==
    Searched =>
        /\ ~is_collection(obj) =>
              output = IF match_found(obj, to_lowercase(term)) THEN obj
                       ELSE Array(<<>>)
        /\ non_empty_array_or_object(output) <=> match_found(obj, to_lowercase(term))

\* a root that is an Array and matches through its element is no collection
\* and is returned as it is, a non-empty Array
C14_Witness ==
    /\ Searched /\ ~is_collection(obj)
    /\ obj.type = "Array" /\ obj.val # <<>>
    /\ term = <<"a">>
    /\ output = obj

(***************************************************************************)
(* C15                                                                     *)
(***************************************************************************)
\* C15: for a lowercased term t, search_recursive_bool(n, t) is true on an
\* Object iff some key's lowercase contains t, or some String member's
\* lowercase contains t, or the predicate is true on some member; on an
\* Array iff it is true on some element; and it is false on every scalar,
\* a String that is the root or an element of an Array included.
C15_NodePredicate ==
    Tested =>
        /\ output = Bool(matches(obj, term))
        /\ obj.type \notin {"Object", "Array"} => output = Bool(FALSE)
        /\ (/\ obj.type = "Array"
            /\ \A i \in 1..Len(obj.val) : obj.val[i].type \notin {"Object", "Array"})
              => output = Bool(FALSE)

\* an Array whose only element is a String that contains the term: the
\* predicate is false
C15_Witness ==
    /\ Tested
    /\ obj = Array(<<Str(<<"a">>)>>)
    /\ term = <<"a">>
    /\ output = Bool(FALSE)

(***************************************************************************)
(* C16                                                                     *)
(***************************************************************************)
\* the results of the two modes of search_json
search_of_collection(d, t) == Array(matching_elements(elements(d), t))
search_of_document(d, t) == IF matches(d, t) THEN d ELSE Array(<<>>)

\* the results of the two modes of subsearch_json: every element flattened
\* under its own name, or the whole document flattened under "resource"
subsearch_of_collection(d, t) ==
    Object(flat_resources_from(elements(d), 1, t, <<>>))
subsearch_of_document(d, t) ==
    Object(subsearch_recursive_flat(d, ResourceToken, <<>>, t, <<>>))

\* C16: search_json and subsearch_json work in collection mode iff the root
\* is an Object with a "value" member that is an Array; a document without
\* "value", with a "value" that is no Array, or with a root that is an Array
\* or a scalar is processed in single-document mode.
C16_ModeOfDocument ==
    /\ Searched =>
          output = IF is_collection(obj)
                   THEN search_of_collection(obj, to_lowercase(term))
                   ELSE search_of_document(obj, to_lowercase(term))
    /\ Subsearched =>
          output = IF is_collection(obj)
                   THEN subsearch_of_collection(obj, to_lowercase(term))
                   ELSE subsearch_of_document(obj, to_lowercase(term))

\* {"value":{"a":1}} has a "value" that is no Array: subsearch_json for "a"
\* flattens the whole document under "resource"
C16_Witness ==
    /\ Subsearched
    /\ obj = Obj1(ValueKey, Obj1(<<"a">>, Number(1)))
    /\ term = <<"a">>
    /\ output = Object(<< <<ResourceToken \o <<".">> \o ValueKey,
                            Obj1(<<"a">>, Number(1))>>,
                          <<ResourceToken \o <<".">> \o ValueKey \o <<".", "a">>,
                            Number(1)>> >>)

(***************************************************************************)
(* C17                                                                     *)
(***************************************************************************)
\* the flattening of section 4 of the specification, as the set of
\* <<path, value>> pairs it describes: the members of Objects, at every
\* depth, whose key or String value contains the term, under the running
\* path extended by ".key" for a member and "[index]" for an element
RECURSIVE flattened(_, _, _)
flattened(n, running, t) ==
    CASE n.type = "Object" ->
            UNION { LET key == n.val[i][1]
                        value == n.val[i][2]
                        current == running \o <<".">> \o key
                        hit == \/ contains(to_lowercase(key), t)
                               \/ /\ value.type = "String"
                                  /\ contains(to_lowercase(value.val), t)
                    IN  (IF hit THEN {<<current, value>>} ELSE {})
                            \cup flattened(value, current, t)
                  : i \in 1..Len(n.val) }
      [] n.type = "Array" ->
            UNION { flattened(n.val[i],
                              running \o <<"[">> \o to_decimal(i - 1) \o <<"]">>, t)
                  : i \in 1..Len(n.val) }
      [] OTHER -> {}

\* the path keys of a set of pairs, and of a result Object
paths_of(pairs) == {pair[1] : pair \in pairs}
keys_of_output(v) == {v.val[i][1] : i \in 1..Len(v.val)}

has_name(e) == e.type = "Object" /\ \E i \in 1..Len(e.val) : e.val[i][1] = NameKey
name_of(e) == e.val[CHOOSE i \in 1..Len(e.val) : e.val[i][1] = NameKey][2]

\* the text of a scalar in JSON
json_text(v) ==
    CASE v.type = "String" -> v.val
      [] v.type = "Number" -> to_decimal(v.val)
      [] v.type = "Bool" -> IF v.val THEN <<"t", "r", "u", "e">>
                            ELSE <<"f", "a", "l", "s", "e">>
      [] OTHER -> <<"n", "u", "l", "l">>

positional(i) == ResourcePrefix \o to_decimal(i)

\* the identity of the element at position i (from 0): its "name" when it
\* has one, whatever the type of the name
identity_by_presence(e, i) ==
    IF has_name(e) THEN json_text(name_of(e)) ELSE positional(i)

\* the identity of the element at position i (from 0): its "name" when it
\* has one that is a String
identity_by_string_name(e, i) ==
    IF has_name(e) /\ name_of(e).type = "String" THEN name_of(e).val
    ELSE positional(i)

\* C17 as stated: the paths of the element at position i of a collection
\* start with the element's "name" if the element has one, and with
\* resource_<i> otherwise; the paths of a document that is no collection
\* start with "resource".
C17_NameIfPresent ==
    Subsearched =>
        keys_of_output(output) =
            IF is_collection(obj)
            THEN UNION { paths_of(flattened(elements(obj)[i],
                             identity_by_presence(elements(obj)[i], i - 1),
                             to_lowercase(term)))
                       : i \in 1..Len(elements(obj)) }
            ELSE paths_of(flattened(obj, ResourceToken, to_lowercase(term)))

\* C17, amended: the paths of the element at position i of a collection
\* start with the element's "name" if the element is an Object with a "name"
\* that is a String, and with resource_<i> otherwise (no "name", a "name"
\* that is no String, an element that is no Object); the paths of a document
\* that is no collection start with "resource".
C17_StringNameOrPosition ==
    Subsearched =>
        keys_of_output(output) =
            IF is_collection(obj)
            THEN UNION { paths_of(flattened(elements(obj)[i],
                             identity_by_string_name(elements(obj)[i], i - 1),
                             to_lowercase(term)))
                       : i \in 1..Len(elements(obj)) }
            ELSE paths_of(flattened(obj, ResourceToken, to_lowercase(term)))

\* [{"name":"a"},{"name":1}] searched for "name": the first element is
\* listed under its name, the second under resource_1
C17_Witness ==
    /\ Subsearched /\ is_collection(obj)
    /\ term = NameKey
    /\ elements(obj) = <<Obj1(NameKey, Str(<<"a">>)), Obj1(NameKey, Number(1))>>
    /\ keys_of_output(output) =
           {<<"a", ".">> \o NameKey, Resource1 \o <<".">> \o NameKey}

(***************************************************************************)
(* C18                                                                     *)
(***************************************************************************)
\* the pairs the flattening gives for the element at position i (from 1) of
\* a collection, under the identity subsearch_json gives to the element
pairs_of_element(d, i, t) ==
    flattened(elements(d)[i], identity_by_string_name(elements(d)[i], i - 1), t)

entries_of_output(v) == {v.val[i] : i \in 1..Len(v.val)}

\* C18 as stated: in collection mode no path of one element of "value" is
\* also a path of a different element, and the result mapping holds every
\* match of every element.
C18_NoCollisionAcrossResources ==
    (Subsearched /\ is_collection(obj)) =>
        /\ \A i, j \in 1..Len(elements(obj)) :
              i # j => paths_of(pairs_of_element(obj, i, to_lowercase(term)))
                          \cap paths_of(pairs_of_element(obj, j, to_lowercase(term)))
                          = {}
        /\ \A i \in 1..Len(elements(obj)) :
              pairs_of_element(obj, i, to_lowercase(term))
                  \subseteq entries_of_output(output)

(***************************************************************************)
(* C19                                                                     *)
(***************************************************************************)
\* the pairs the flattening gives for a whole document
pairs_of_document(d, t) ==
    IF is_collection(d)
    THEN UNION {pairs_of_element(d, i, t) : i \in 1..Len(elements(d))}
    ELSE flattened(d, ResourceToken, t)

\* C19 as stated: the result mapping of subsearch_json holds path -> value
\* for exactly the members of Objects, at every depth, whose key or String
\* value contains the term, the path being the running path extended by
\* ".key" and "[index]"; below a member the flattening goes on whether or
\* not the member matched, Arrays and scalar elements of Arrays are not
\* tested, and a member matching by key and by value gives one entry.
C19_Flattening ==
    Subsearched =>
        entries_of_output(output) = pairs_of_document(obj, to_lowercase(term))

\* the same on the documents that are no collection, where the elements of
\* different resources play no part
C19_FlatteningOfDocument ==
    (Subsearched /\ ~is_collection(obj)) =>
        entries_of_output(output) = flattened(obj, ResourceToken, to_lowercase(term))

(***************************************************************************)
(* C20                                                                     *)
(***************************************************************************)
\* C20 as stated: subsearch_json on {"a":{"size":"Standard_B2s",
\* "nested":{"size":"X"}}} for "size" gives a mapping that holds
\* "resource.size" -> "Standard_B2s" and "resource.nested.size" -> "X".
C20_PathsWithoutA ==
    (Subsearched /\ obj = DocNestedSize /\ term = SizeKey) =>
        {<<ResourceToken \o <<".">> \o SizeKey, Str(StandardB2s)>>,
         <<ResourceToken \o <<".">> \o NestedKey \o <<".">> \o SizeKey, Str(<<"X">>)>>}
            \subseteq entries_of_output(output)

\* C20, amended: subsearch_json on that document for "size" gives the
\* mapping of "resource.a.size" -> "Standard_B2s" and
\* "resource.a.nested.size" -> "X", and nothing else.
C20_PathsThroughA ==
    (Subsearched /\ obj = DocNestedSize /\ term = SizeKey) =>
        entries_of_output(output) =
            {<<ResourceToken \o <<".", "a", ".">> \o SizeKey, Str(StandardB2s)>>,
             <<ResourceToken \o <<".", "a", ".">> \o NestedKey \o <<".">> \o SizeKey,
               Str(<<"X">>)>>}

\* the search of that document for "size" gave two entries
C20_Witness ==
    /\ Subsearched /\ obj = DocNestedSize /\ term = SizeKey
    /\ Len(output.val) = 2

(***************************************************************************)
(* C21                                                                     *)
(***************************************************************************)
\* the document with every key and every String value in lower case; two
\* documents that differ only in letter case have the same folded document
RECURSIVE fold_case(_)
RECURSIVE fold_entries(_, _, _)
fold_entries(map, i, folded) ==
    IF i > Len(map) THEN folded
    ELSE fold_entries(map, i + 1,
             map_insert(folded, to_lowercase(map[i][1]), fold_case(map[i][2])))

fold_case(v) ==
    CASE v.type = "Object" -> Object(fold_entries(v.val, 1, <<>>))
      [] v.type = "Array" -> Array([i \in 1..Len(v.val) |-> fold_case(v.val[i])])
      [] v.type = "String" -> Str(to_lowercase(v.val))
      [] OTHER -> v

\* no two keys of one Object differ only in letter case, at any depth
RECURSIVE foldable(_)
foldable(v) ==
    CASE v.type = "Object" ->
            /\ \A i, j \in 1..Len(v.val) :
                  to_lowercase(v.val[i][1]) = to_lowercase(v.val[j][1]) => i = j
            /\ \A i \in 1..Len(v.val) : foldable(v.val[i][2])
      [] v.type = "Array" -> \A i \in 1..Len(v.val) : foldable(v.val[i])
      [] OTHER -> TRUE

\* the keys "value" and "name" are written in lower case wherever a key of
\* the document is one of them up to letter case
RECURSIVE plain_structure_keys(_)
plain_structure_keys(v) ==
    CASE v.type = "Object" ->
            \A i \in 1..Len(v.val) :
                /\ to_lowercase(v.val[i][1]) \in {ValueKey, NameKey}
                      => v.val[i][1] = to_lowercase(v.val[i][1])
                /\ plain_structure_keys(v.val[i][2])
      [] v.type = "Array" -> \A i \in 1..Len(v.val) : plain_structure_keys(v.val[i])
      [] OTHER -> TRUE

lowercased_paths(v) == {to_lowercase(k) : k \in keys_of_output(v)}

\* the result of the call of this state for another spelling of the term
same_for_term(t) ==
    output = IF Searched THEN search_json(obj, t) ELSE subsearch_json(obj, t)

\* the result of the call of this state agrees, up to letter case, with the
\* result on the folded document: the same nodes for search_json, the same
\* paths for subsearch_json
same_for_folded_document ==
    IF Searched
    THEN fold_case(output) = search_json(fold_case(obj), term)
    ELSE lowercased_paths(output)
             = keys_of_output(subsearch_json(fold_case(obj), term))

\* C21 as stated: search_json and subsearch_json give identical results for
\* two terms that differ only in letter case, and on two documents that
\* differ only in the letter case of keys and String values they match the
\* same nodes and paths up to that difference.
C21_CaseInsensitive ==
    (Searched \/ Subsearched) =>
        /\ \A t \in Terms : to_lowercase(t) = to_lowercase(term) => same_for_term(t)
        /\ foldable(obj) => same_for_folded_document

\* C21, amended: the results are identical for two terms that differ only in
\* letter case; and on two documents that differ only in the letter case of
\* keys and String values, and that write the keys "value" and "name" the
\* same, search_json matches the same nodes and subsearch_json produces the
\* same set of paths up to that difference.
C21_CaseInsensitiveBesideStructureKeys ==
    (Searched \/ Subsearched) =>
        /\ \A t \in Terms : to_lowercase(t) = to_lowercase(term) => same_for_term(t)
        /\ (foldable(obj) /\ plain_structure_keys(obj)) => same_for_folded_document

\* {"B":1} searched for "B": the key in upper case matches, as the key of
\* the folded document {"b":1} does
C21_Witness ==
    /\ Searched
    /\ obj = Obj1(<<"B">>, Number(1))
    /\ term = <<"B">>
    /\ output = obj
    /\ fold_case(obj) = Obj1(<<"b">>, Number(1))

(***************************************************************************)
(* C22                                                                     *)
(***************************************************************************)
\* C22: for every document, path and config, has_path is true iff get_value
\* succeeds, and get_value_or_default gives the resolved value when
\* get_value succeeds and the default of the caller when it fails, whatever
\* the error.
C22_DerivedOperationsAgree ==
    /\ op = "has_path" =>
          output = Bool(get_value(config, obj, path).kind = "Ok")
    /\ op = "Value::has_path" =>
          output = Bool(get_value(config, obj, path).kind = "Ok")
    /\ op = "get_value_or_default" =>
          output = IF get_value(config, obj, path).kind = "Ok"
                   THEN get_value(config, obj, path).value
                   ELSE default

\* a blank path on an Object under a config that is not the default one:
\* get_value fails with EmptyPath and has_path is false
C22_Witness ==
    /\ op = "has_path"
    /\ config # DefaultConfig
    /\ get_value(config, obj, path) = EmptyPath
    /\ output = Bool(FALSE)

(***************************************************************************)
(* C23                                                                     *)
(***************************************************************************)
\* the documents both the resolver and the search are called on
RepeatDocs ==
    EdgeDocs \cup {DocABCD, DocABValue, DocUserName} \cup NonObjectDocs
        \cup Resources \cup BareDocs \cup {DocSizeAndName}

InitRepeat ==
    /\ obj \in RepeatDocs
    /\ config \in Configs
    /\ path = <<>>
    /\ op = "none"
    /\ result = NoResult
    /\ paths = <<>>
    /\ term = <<>>
    /\ output = NoResult
    /\ default = Null

\* the same call a second time, with the arguments of the first
GetValueAgain ==
    /\ op = "get_value"
    /\ result' = get_value(config, obj, path)
    /\ op' = "get_value again"
    /\ UNCHANGED <<obj, config, path, paths, term, output, default>>

SearchJsonAgain ==
    /\ op = "search_json"
    /\ output' = search_json(obj, term)
    /\ op' = "search_json again"
    /\ UNCHANGED <<obj, config, path, result, paths, term, default>>

SubsearchJsonAgain ==
    /\ op = "subsearch_json"
    /\ output' = subsearch_json(obj, term)
    /\ op' = "subsearch_json again"
    /\ UNCHANGED <<obj, config, path, result, paths, term, default>>

NextRepeat ==
    \/ GetValue \/ SearchJson \/ SubsearchJson
    \/ GetValueAgain \/ SearchJsonAgain \/ SubsearchJsonAgain

SpecRepeat == InitRepeat /\ [][NextRepeat]_vars

search_result == IF Searched THEN output ELSE search_json(obj, term)
subsearch_result == IF Subsearched THEN output ELSE subsearch_json(obj, term)

\* subsearch_json inserts an entry while it processes the element at
\* position i (from 1) of the collection
inserts_for_element(d, i, t) ==
    subsearch_recursive_flat(elements(d)[i],
        resource_name_of(elements(d)[i], i - 1), <<>>, t, <<>>) # <<>>

in_search_result(e) ==
    \E j \in 1..Len(search_result.val) : search_result.val[j] = e

elements_agree ==
    is_collection(obj) =>
        \A i \in 1..Len(elements(obj)) :
            in_search_result(elements(obj)[i])
                <=> inserts_for_element(obj, i, to_lowercase(term))

\* C24 as stated: search_json reports a match, that is a non-empty Array in
\* collection mode or the document itself in single-document mode, iff
\* subsearch_json returns a non-empty mapping; and in collection mode an
\* element of "value" is in the search result iff subsearch_json inserts an
\* entry while it processes the element.
C24_SearchesAgree ==
    (Searched \/ Subsearched) =>
        /\ (IF is_collection(obj)
            THEN search_result.type = "Array" /\ search_result.val # <<>>
            ELSE search_result = obj)
              <=> subsearch_result.val # <<>>
        /\ elements_agree

\* C24, amended: the same, where the document itself reports a match in
\* single-document mode only if it is not the empty Array (the result for an
\* empty Array as document is the empty Array of "no match").
C24_SearchesAgreeBesideEmptyArray ==
    (Searched \/ Subsearched) =>
        /\ (IF is_collection(obj)
            THEN search_result.type = "Array" /\ search_result.val # <<>>
            ELSE search_result = obj /\ search_result # Array(<<>>))
              <=> subsearch_result.val # <<>>
        /\ elements_agree

\* a collection of two elements searched for "a": one element is in the
\* result, and the mapping of subsearch_json is not empty
C24_Witness ==
    /\ Searched /\ is_collection(obj)
    /\ term = <<"a">>
    /\ Len(elements(obj)) = 2
    /\ Len(output.val) = 1
    /\ subsearch_result.val # <<>>

(***************************************************************************)
(* C25                                                                     *)
(***************************************************************************)
\* get_value failed at a step, under the default config
FailedAtStep ==
    /\ Resolved
    /\ config = DefaultConfig
    /\ result.kind \in {"KeyNotFound", "TraversalError"}

\* the path of the first k segments
prefix_path(segs, k) == join(SubSeq(segs, 1, k), DefaultConfig.separator)

\* the node the first k segments lead to from the root
node_after(segs, k) ==
    IF k = 0 THEN obj
    ELSE get_value(DefaultConfig, obj, prefix_path(segs, k)).value

\* C25: under the default config, when get_value(D, P) fails with
\* KeyNotFound or TraversalError at step k over the parsed segments s1..sn,
\* then 1 <= k <= n, the path of the error has exactly k segments, the first
\* k-1 segments resolve on D (for k > 1), the node they reach is an Object
\* for KeyNotFound and no Object for TraversalError, and TraversalError never
\* has step 1.
C25_FirstFailingStep ==
    FailedAtStep =>
        LET segs == folded_segments(config, path)
            k == result.step
        IN  /\ 1 <= k /\ k <= Len(segs)
            /\ Len(split(result.path, DefaultConfig.separator)) = k
            /\ result.path = prefix_path(segs, k)
            /\ k > 1 => get_value(DefaultConfig, obj, prefix_path(segs, k - 1)).kind = "Ok"
            /\ result.kind = "KeyNotFound" => node_after(segs, k - 1).type = "Object"
            /\ result.kind = "TraversalError" =>
                  (k # 1 /\ node_after(segs, k - 1).type # "Object")

\* a path of three segments that fails at the second, on a scalar the first
\* segment leads to
C25_Witness ==
    /\ FailedAtStep
    /\ Len(folded_segments(config, path)) = 3
    /\ result.kind = "TraversalError"
    /\ result.step = 2
    /\ node_after(folded_segments(config, path), 1).type \notin {"Object", "Array"}

====
